---- MODULE Spec2Model ----
(***************************************************************************)
(* Name service canister (src/src/index.ts).                               *)
(*                                                                         *)
(* Two stable maps, "register" (name -> owner Principal) and "records"     *)
(* (name -> Name data record), and the exported update/query functions     *)
(* over them.  index.ts declares registerName, setNameData and             *)
(* updateNameData twice (lines 31-138 and lines 172-318); as with any      *)
(* repeated function declaration, the later declaration is the binding in  *)
(* effect, so the operators below are translated from lines 172-438.       *)
(*                                                                         *)
(* Strings are sequences of one-character strings, so that trim, length    *)
(* and the regular expression are computed as the code computes them.      *)
(* The canister runs one call to completion at a time: each action below   *)
(* is one whole call.                                                      *)
(***************************************************************************)
EXTENDS Integers, Sequences, FiniteSets, TLC

VARIABLES
    register,   \* StableBTreeMap<string, Principal>: name -> owner
    records,    \* StableBTreeMap<string, Name>: name -> data record
    last        \* the call just completed: its arguments, its result and
                \* the two maps as they were when it started

vars == <<register, records, last>>

----------------------------------------------------------------------------
(* Bounds of the model and constants of the program *)

NumCallers == 2     \* number of distinct calling principals
MaxPad == 1         \* width of the whitespace padding around padded inputs
LongBy == 1         \* by how much the over-long field exceeds FieldCap

MinNameLen == 2     \* name.length < 2
MaxNameLen == 16    \* name.length > 16
FieldCap == 100     \* btcAddress.length > 100 (first declaration only)

----------------------------------------------------------------------------
(* Strings *)

Letters ==
    {"a","b","c","d","e","f","g","h","i","j","k","l","m",
     "n","o","p","q","r","s","t","u","v","w","x","y","z",
     "A","B","C","D","E","F","G","H","I","J","K","L","M",
     "N","O","P","Q","R","S","T","U","V","W","X","Y","Z"}

Digits == {"0","1","2","3","4","5","6","7","8","9"}

\* characters String.prototype.trim removes (the ones the inputs can hold)
WhiteSpace == {" ", "\t", "\n", "\r"}

\* the ASCII characters input strings are made of, in char-code order
\* ("!" 33, digits 48-57, upper case 65-90, "_" 95, lower case 97-122)
Ascii ==
    <<"!","0","1","2","3","4","5","6","7","8","9",
      "A","B","C","D","E","F","G","H","I","J","K","L","M",
      "N","O","P","Q","R","S","T","U","V","W","X","Y","Z","_",
      "a","b","c","d","e","f","g","h","i","j","k","l","m",
      "n","o","p","q","r","s","t","u","v","w","x","y","z">>

\* position in char-code order
Code(c) == CHOOSE i \in 1..Len(Ascii) : Ascii[i] = c

RECURSIVE TrimStart(_)
TrimStart(s) ==
    IF s # <<>> /\ Head(s) \in WhiteSpace THEN TrimStart(Tail(s)) ELSE s

RECURSIVE TrimEnd(_)
TrimEnd(s) ==
    IF s # <<>> /\ s[Len(s)] \in WhiteSpace
    THEN TrimEnd(SubSeq(s, 1, Len(s) - 1))
    ELSE s

\* String.prototype.trim
trim(s) == TrimEnd(TrimStart(s))

\* s < t in the order of the map's keys (by char code, shorter prefix first)
RECURSIVE StrLess(_, _)
StrLess(s, t) ==
    IF t = <<>> THEN FALSE
    ELSE IF s = <<>> THEN TRUE
    ELSE IF Head(s) # Head(t) THEN Code(Head(s)) < Code(Head(t))
    ELSE StrLess(Tail(s), Tail(t))

----------------------------------------------------------------------------
(* Principals, Opt, Result *)

\* the calling principals: whoever registers a name, and the other callers
Principals == 1..NumCallers

DigitChar == <<"1","2","3","4","5","6","7","8","9">>

\* Principal.toString(): the textual form, distinct for distinct principals
toString(p) == <<"p", "-", DigitChar[p]>>

Some(v) == [tag |-> "Some", val |-> v]
None == [tag |-> "None"]

\* Result.Ok / Result.Err build an object holding the value
Ok(v) == [tag |-> "Ok", val |-> v]
Err(text, args) == [tag |-> "Err", val |-> [text |-> text, args |-> args]]

\* a template literal: its fixed text and the values interpolated into it
Msg(text, args) == [text |-> text, args |-> args]

\* ToBoolean of an object reference: every object is truthy
ToBoolean(obj) == TRUE

\* JSON.stringify of a Name record, of {} and of an Opt
StringifyName(d) ==
    <<"{\"btcAddress\":\"", d.btcAddress, "\",\"ethAddress\":\"", d.ethAddress,
      "\",\"twitterUsername\":\"", d.twitterUsername, "\"}">>

StringifyOpt(o) ==
    IF o.tag = "Some"
    THEN <<"{\"Some\":">> \o StringifyName(o.val) \o <<"}">>
    ELSE <<"{\"None\":null}">>

----------------------------------------------------------------------------
(* StableBTreeMap *)

MapGet(m, k) == IF k \in DOMAIN m THEN Some(m[k]) ELSE None

MapContainsKey(m, k) == k \in DOMAIN m

MapInsert(m, k, v) == [x \in DOMAIN m \cup {k} |-> IF x = k THEN v ELSE m[x]]

MapRemove(m, k) == [x \in DOMAIN m \ {k} |-> m[x]]

RECURSIVE SortedKeys(_)
SortedKeys(S) ==
    IF S = {} THEN <<>>
    ELSE LET least == CHOOSE k \in S : \A o \in S \ {k} : StrLess(k, o)
         IN  <<least>> \o SortedKeys(S \ {least})

MapKeys(m) == SortedKeys(DOMAIN m)

EmptyMap == [x \in {} |-> 0]

----------------------------------------------------------------------------
(* Validation *)

\* validNameRegex = /^[A-Za-z0-9]+$/ tested against str
validNameRegexTest(str) ==
    /\ Len(str) >= 1
    /\ \A i \in 1..Len(str) : str[i] \in Letters \cup Digits

\* isNameValid returns a Result object, not a boolean
isNameValid(str) ==
    IF validNameRegexTest(str)
    THEN Ok(str)
    ELSE Err("INVALID_NAME_FORMAT: Name can only contain letters and numbers from the English alphabet", <<>>)

\* ToBoolean of a string: the empty string is falsy
StrToBoolean(s) == s # <<>>

----------------------------------------------------------------------------
(* The exported functions: each gives the two maps after the call and the  *)
(* Result returned.                                                        *)

Ret(reg, rec, result) == [register |-> reg, records |-> rec, result |-> result]

NameData(btcAddress, ethAddress, twitterUsername) ==
    [btcAddress |-> btcAddress, ethAddress |-> ethAddress,
     twitterUsername |-> twitterUsername]

\* registerName that reports success without recording the owner
registerName_NoInsert(reg, rec, caller, _name) ==
    LET name == trim(_name) IN
    IF ~ToBoolean(isNameValid(name))
    THEN Ret(reg, rec, Err(" INVALID_NAME_FORMAT : Name can only contain letters and numbers from the English alphabet", <<>>))
    ELSE IF Len(name) < MinNameLen \/ Len(name) > MaxNameLen
    THEN Ret(reg, rec, Err(" INVALID_NAME_LENGTH : Name must be between 2 and 16 characters long", <<>>))
    ELSE IF MapGet(reg, name).tag = "Some"
    THEN Ret(reg, rec, Err("${name} is already taken. Please use another name", <<name>>))
    ELSE Ret(reg, rec,
             Ok(Msg("${name} now maps to ${ic.caller().toString()}",
                    <<name, toString(caller)>>)))

\* registerName that lets the current owner register again
registerName_OwnerAgain(reg, rec, caller, _name) ==
    LET name == trim(_name) IN
    IF ~ToBoolean(isNameValid(name))
    THEN Ret(reg, rec, Err(" INVALID_NAME_FORMAT : Name can only contain letters and numbers from the English alphabet", <<>>))
    ELSE IF Len(name) < MinNameLen \/ Len(name) > MaxNameLen
    THEN Ret(reg, rec, Err(" INVALID_NAME_LENGTH : Name must be between 2 and 16 characters long", <<>>))
    ELSE IF MapGet(reg, name).tag = "Some" /\ MapGet(reg, name).val # caller
    THEN Ret(reg, rec, Err("${name} is already taken. Please use another name", <<name>>))
    ELSE Ret(MapInsert(reg, name, caller), rec,
             Ok(Msg("${name} now maps to ${ic.caller().toString()}",
                    <<name, toString(caller)>>)))

\* registerName without the check for an existing owner (insert overwrites)
registerName_Overwrite(reg, rec, caller, _name) ==
    LET name == trim(_name) IN
    IF ~ToBoolean(isNameValid(name))
    THEN Ret(reg, rec, Err(" INVALID_NAME_FORMAT : Name can only contain letters and numbers from the English alphabet", <<>>))
    ELSE IF Len(name) < MinNameLen \/ Len(name) > MaxNameLen
    THEN Ret(reg, rec, Err(" INVALID_NAME_LENGTH : Name must be between 2 and 16 characters long", <<>>))
    ELSE Ret(MapInsert(reg, name, caller), rec,
             Ok(Msg("${name} now maps to ${ic.caller().toString()}",
                    <<name, toString(caller)>>)))

registerName(reg, rec, caller, _name) ==
    LET name == trim(_name) IN
    IF ~ToBoolean(isNameValid(name))
    THEN Ret(reg, rec, Err(" INVALID_NAME_FORMAT : Name can only contain letters and numbers from the English alphabet", <<>>))
    ELSE IF Len(name) < MinNameLen \/ Len(name) > MaxNameLen
    THEN Ret(reg, rec, Err(" INVALID_NAME_LENGTH : Name must be between 2 and 16 characters long", <<>>))
    ELSE IF MapGet(reg, name).tag = "Some"
    THEN Ret(reg, rec, Err("${name} is already taken. Please use another name", <<name>>))
    ELSE Ret(MapInsert(reg, name, caller), rec,
             Ok(Msg("${name} now maps to ${ic.caller().toString()}",
                    <<name, toString(caller)>>)))

\* setNameData without the check for an existing record
setNameData_Overwrite(reg, rec, caller, name, _btcAddress, _ethAddress, _twitterUsername) ==
    LET btcAddress == trim(_btcAddress)
        ethAddress == trim(_ethAddress)
        twitterUsername == trim(_twitterUsername)
        got == MapGet(reg, name)
        nameData == NameData(btcAddress, ethAddress, twitterUsername)
    IN
    IF got.tag = "None"
    THEN Ret(reg, rec, Err("${name} has not been claimed yet", <<name>>))
    ELSE IF toString(caller) # toString(got.val)
    THEN Ret(reg, rec, Err("Only name owner can set name data", <<>>))
    ELSE IF Len(btcAddress) = 0
    THEN Ret(reg, rec, Err("Invalid Bitcoin address", <<>>))
    ELSE IF Len(ethAddress) = 0
    THEN Ret(reg, rec, Err("Invalid Ethereum address", <<>>))
    ELSE IF Len(twitterUsername) = 0
    THEN Ret(reg, rec, Err("Invalid Twitter username", <<>>))
    ELSE Ret(reg, MapInsert(rec, name, nameData),
             Ok(Msg("${name} now maps to ${JSON.stringify(nameData)}",
                    <<name, StringifyName(nameData)>>)))

\* setNameData that inserts the record before the last field check
setNameData_InsertFirst(reg, rec, caller, name, _btcAddress, _ethAddress, _twitterUsername) ==
    LET btcAddress == trim(_btcAddress)
        ethAddress == trim(_ethAddress)
        twitterUsername == trim(_twitterUsername)
        got == MapGet(reg, name)
        nameData == NameData(btcAddress, ethAddress, twitterUsername)
    IN
    IF got.tag = "None"
    THEN Ret(reg, rec, Err("${name} has not been claimed yet", <<name>>))
    ELSE IF toString(caller) # toString(got.val)
    THEN Ret(reg, rec, Err("Only name owner can set name data", <<>>))
    ELSE IF MapContainsKey(rec, name)
    THEN Ret(reg, rec, Err("${name} already has data associated with it", <<name>>))
    ELSE IF Len(btcAddress) = 0
    THEN Ret(reg, rec, Err("Invalid Bitcoin address", <<>>))
    ELSE IF Len(ethAddress) = 0
    THEN Ret(reg, rec, Err("Invalid Ethereum address", <<>>))
    ELSE IF Len(twitterUsername) = 0
    THEN Ret(reg, MapInsert(rec, name, nameData), Err("Invalid Twitter username", <<>>))
    ELSE Ret(reg, MapInsert(rec, name, nameData),
             Ok(Msg("${name} now maps to ${JSON.stringify(nameData)}",
                    <<name, StringifyName(nameData)>>)))

setNameData(reg, rec, caller, name, _btcAddress, _ethAddress, _twitterUsername) ==
    LET btcAddress == trim(_btcAddress)
        ethAddress == trim(_ethAddress)
        twitterUsername == trim(_twitterUsername)
        got == MapGet(reg, name)
        nameData == NameData(btcAddress, ethAddress, twitterUsername)
    IN
    IF got.tag = "None"
    THEN Ret(reg, rec, Err("${name} has not been claimed yet", <<name>>))
    ELSE IF toString(caller) # toString(got.val)
    THEN Ret(reg, rec, Err("Only name owner can set name data", <<>>))
    ELSE IF MapContainsKey(rec, name)
    THEN Ret(reg, rec, Err("${name} already has data associated with it", <<name>>))
    ELSE IF Len(btcAddress) = 0
    THEN Ret(reg, rec, Err("Invalid Bitcoin address", <<>>))
    ELSE IF Len(ethAddress) = 0
    THEN Ret(reg, rec, Err("Invalid Ethereum address", <<>>))
    ELSE IF Len(twitterUsername) = 0
    THEN Ret(reg, rec, Err("Invalid Twitter username", <<>>))
    ELSE Ret(reg, MapInsert(rec, name, nameData),
             Ok(Msg("${name} now maps to ${JSON.stringify(nameData)}",
                    <<name, StringifyName(nameData)>>)))

\* updateNameData with the length cap of setNameData's first declaration
updateNameData_Capped(reg, rec, caller, name, _btcAddress, _ethAddress, _twitterUsername) ==
    LET btcAddress == trim(_btcAddress)
        ethAddress == trim(_ethAddress)
        twitterUsername == trim(_twitterUsername)
        got == MapGet(reg, name)
        nameData == NameData(btcAddress, ethAddress, twitterUsername)
        prevData == MapGet(rec, name)
    IN
    IF ~StrToBoolean(name) \/ ~StrToBoolean(trim(name))
    THEN Ret(reg, rec, Err("Invalid name", <<>>))
    ELSE IF ~StrToBoolean(_btcAddress) \/ ~StrToBoolean(trim(_btcAddress))
    THEN Ret(reg, rec, Err("Invalid Bitcoin address", <<>>))
    ELSE IF ~StrToBoolean(_ethAddress) \/ ~StrToBoolean(trim(_ethAddress))
    THEN Ret(reg, rec, Err("Invalid Ethereum address", <<>>))
    ELSE IF ~StrToBoolean(_twitterUsername) \/ ~StrToBoolean(trim(_twitterUsername))
    THEN Ret(reg, rec, Err("Invalid Twitter username", <<>>))
    ELSE IF got.tag = "None"
    THEN Ret(reg, rec, Err("${name} has not been claimed yet", <<name>>))
    ELSE IF toString(caller) # toString(got.val)
    THEN Ret(reg, rec, Err("Only name owner can update name data", <<>>))
    ELSE IF Len(btcAddress) = 0 \/ Len(btcAddress) > FieldCap
    THEN Ret(reg, rec, Err("Invalid Bitcoin address", <<>>))
    ELSE IF Len(ethAddress) = 0 \/ Len(ethAddress) > FieldCap
    THEN Ret(reg, rec, Err("Invalid Ethereum address", <<>>))
    ELSE IF Len(twitterUsername) = 0 \/ Len(twitterUsername) > FieldCap
    THEN Ret(reg, rec, Err("Invalid Twitter username", <<>>))
    ELSE Ret(reg, MapInsert(rec, name, nameData),
             Ok(Msg("${name} data has now been updated from ${JSON.stringify(prevData.Some || {})} to ${JSON.stringify(nameData)}",
                    <<name,
                      IF prevData.tag = "Some" THEN StringifyName(prevData.val) ELSE <<"{}">>,
                      StringifyName(nameData)>>)))

\* updateNameData that stores the fields as passed, not trimmed
updateNameData_Untrimmed(reg, rec, caller, name, _btcAddress, _ethAddress, _twitterUsername) ==
    LET btcAddress == trim(_btcAddress)
        ethAddress == trim(_ethAddress)
        twitterUsername == trim(_twitterUsername)
        got == MapGet(reg, name)
        nameData == NameData(_btcAddress, _ethAddress, _twitterUsername)
        prevData == MapGet(rec, name)
    IN
    IF ~StrToBoolean(name) \/ ~StrToBoolean(trim(name))
    THEN Ret(reg, rec, Err("Invalid name", <<>>))
    ELSE IF ~StrToBoolean(_btcAddress) \/ ~StrToBoolean(trim(_btcAddress))
    THEN Ret(reg, rec, Err("Invalid Bitcoin address", <<>>))
    ELSE IF ~StrToBoolean(_ethAddress) \/ ~StrToBoolean(trim(_ethAddress))
    THEN Ret(reg, rec, Err("Invalid Ethereum address", <<>>))
    ELSE IF ~StrToBoolean(_twitterUsername) \/ ~StrToBoolean(trim(_twitterUsername))
    THEN Ret(reg, rec, Err("Invalid Twitter username", <<>>))
    ELSE IF got.tag = "None"
    THEN Ret(reg, rec, Err("${name} has not been claimed yet", <<name>>))
    ELSE IF toString(caller) # toString(got.val)
    THEN Ret(reg, rec, Err("Only name owner can update name data", <<>>))
    ELSE IF Len(btcAddress) = 0
    THEN Ret(reg, rec, Err("Invalid Bitcoin address", <<>>))
    ELSE IF Len(ethAddress) = 0
    THEN Ret(reg, rec, Err("Invalid Ethereum address", <<>>))
    ELSE IF Len(twitterUsername) = 0
    THEN Ret(reg, rec, Err("Invalid Twitter username", <<>>))
    ELSE Ret(reg, MapInsert(rec, name, nameData),
             Ok(Msg("${name} data has now been updated from ${JSON.stringify(prevData.Some || {})} to ${JSON.stringify(nameData)}",
                    <<name,
                      IF prevData.tag = "Some" THEN StringifyName(prevData.val) ELSE <<"{}">>,
                      StringifyName(nameData)>>)))

updateNameData(reg, rec, caller, name, _btcAddress, _ethAddress, _twitterUsername) ==
    LET btcAddress == trim(_btcAddress)
        ethAddress == trim(_ethAddress)
        twitterUsername == trim(_twitterUsername)
        got == MapGet(reg, name)
        nameData == NameData(btcAddress, ethAddress, twitterUsername)
        prevData == MapGet(rec, name)
    IN
    IF ~StrToBoolean(name) \/ ~StrToBoolean(trim(name))
    THEN Ret(reg, rec, Err("Invalid name", <<>>))
    ELSE IF ~StrToBoolean(_btcAddress) \/ ~StrToBoolean(trim(_btcAddress))
    THEN Ret(reg, rec, Err("Invalid Bitcoin address", <<>>))
    ELSE IF ~StrToBoolean(_ethAddress) \/ ~StrToBoolean(trim(_ethAddress))
    THEN Ret(reg, rec, Err("Invalid Ethereum address", <<>>))
    ELSE IF ~StrToBoolean(_twitterUsername) \/ ~StrToBoolean(trim(_twitterUsername))
    THEN Ret(reg, rec, Err("Invalid Twitter username", <<>>))
    ELSE IF got.tag = "None"
    THEN Ret(reg, rec, Err("${name} has not been claimed yet", <<name>>))
    ELSE IF toString(caller) # toString(got.val)
    THEN Ret(reg, rec, Err("Only name owner can update name data", <<>>))
    ELSE IF Len(btcAddress) = 0
    THEN Ret(reg, rec, Err("Invalid Bitcoin address", <<>>))
    ELSE IF Len(ethAddress) = 0
    THEN Ret(reg, rec, Err("Invalid Ethereum address", <<>>))
    ELSE IF Len(twitterUsername) = 0
    THEN Ret(reg, rec, Err("Invalid Twitter username", <<>>))
    ELSE Ret(reg, MapInsert(rec, name, nameData),
             Ok(Msg("${name} data has now been updated from ${JSON.stringify(prevData.Some || {})} to ${JSON.stringify(nameData)}",
                    <<name,
                      IF prevData.tag = "Some" THEN StringifyName(prevData.val) ELSE <<"{}">>,
                      StringifyName(nameData)>>)))

\* clearName that removes the owner and leaves the data record
clearName_KeepData(reg, rec, caller, name) ==
    LET got == MapGet(reg, name)
        prevData == MapGet(rec, name)     \* what records.remove(name) returns
    IN
    IF got.tag = "None"
    THEN Ret(reg, rec, Err("Cannot clear name that has not been claimed", <<>>))
    ELSE IF toString(caller) # toString(got.val)
    THEN Ret(reg, rec, Err("Only name owner can clear name. Aborting...", <<>>))
    ELSE Ret(MapRemove(reg, name), rec,
             Ok(Msg("'${name}' with data: ${JSON.stringify(prevData)} has been cleared from storage",
                    <<name, StringifyOpt(prevData)>>)))

\* clearName without the comparison of the caller with the owner
clearName_AnyCaller(reg, rec, caller, name) ==
    LET got == MapGet(reg, name)
        prevData == MapGet(rec, name)
    IN
    IF got.tag = "None"
    THEN Ret(reg, rec, Err("Cannot clear name that has not been claimed", <<>>))
    ELSE Ret(MapRemove(reg, name), MapRemove(rec, name),
             Ok(Msg("'${name}' with data: ${JSON.stringify(prevData)} has been cleared from storage",
                    <<name, StringifyOpt(prevData)>>)))

clearName(reg, rec, caller, name) ==
    LET got == MapGet(reg, name)
        prevData == MapGet(rec, name)     \* what records.remove(name) returns
    IN
    IF got.tag = "None"
    THEN Ret(reg, rec, Err("Cannot clear name that has not been claimed", <<>>))
    ELSE IF toString(caller) # toString(got.val)
    THEN Ret(reg, rec, Err("Only name owner can clear name. Aborting...", <<>>))
    ELSE Ret(MapRemove(reg, name), MapRemove(rec, name),
             Ok(Msg("'${name}' with data: ${JSON.stringify(prevData)} has been cleared from storage",
                    <<name, StringifyOpt(prevData)>>)))

\* viewAllNames that lists the keys of the records map
viewAllNames_FromRecords(reg, rec) ==
    LET keys == MapKeys(rec) IN
    IF Len(keys) = 0
    THEN Ret(reg, rec, Err("No names found.", <<>>))
    ELSE Ret(reg, rec, Ok(keys))

viewAllNames(reg, rec) ==
    LET keys == MapKeys(reg) IN
    IF Len(keys) = 0
    THEN Ret(reg, rec, Err("No names found.", <<>>))
    ELSE Ret(reg, rec, Ok(keys))

isNameAvailable(reg, name) == MapGet(reg, name).tag = "None"

getNameData(rec, name) ==
    LET got == MapGet(rec, name) IN
    IF got.tag = "Some"
    THEN Ok(got.val)
    ELSE Err("Error getting name data for ${name}: ${e}", <<name>>)

\* viewNameData that looks for the record before it looks for the owner
viewNameData_DataCheckFirst(reg, rec, name) ==
    IF ~MapContainsKey(rec, name)
    THEN Ret(reg, rec, Err("${name} has no data associated with it", <<name>>))
    ELSE IF isNameAvailable(reg, name)
    THEN Ret(reg, rec, Err("${name} has not been claimed yet", <<name>>))
    ELSE Ret(reg, rec, getNameData(rec, name))

viewNameData(reg, rec, name) ==
    IF isNameAvailable(reg, name)
    THEN Ret(reg, rec, Err("${name} has not been claimed yet", <<name>>))
    ELSE IF ~MapContainsKey(rec, name)
    THEN Ret(reg, rec, Err("${name} has no data associated with it", <<name>>))
    ELSE Ret(reg, rec, getNameData(rec, name))

viewRegisteredName(reg, rec, name) ==
    LET got == MapGet(reg, name) IN
    IF got.tag = "Some"
    THEN Ret(reg, rec, Ok(toString(got.val)))
    ELSE Ret(reg, rec, Err("The name ${name} has not been registered yet", <<name>>))

----------------------------------------------------------------------------
(* The arguments callers pass *)

Spaces(n) == [i \in 1..n |-> " "]

\* s with whitespace on both sides
Pad(s) == Spaces(MaxPad) \o s \o Spaces(MaxPad)

Alice1 == <<"a","l","i","c","e","1">>
Bang == <<"a","l","!","c","e">>
TooShort == <<"a">>
TooLong == [i \in 1..(MaxNameLen + 1) |-> "z"]

RawNames == {Alice1, Pad(Alice1), Bang, TooShort, TooLong, Spaces(MaxPad)}

Btc == <<"b","c","1","q","x","y">>
Eth == <<"0","x","A","b","C">>
Twitter == <<"a","l","i","c","e","_","t","w">>
Btc2 == <<"b","c","1","z","z">>
Eth2 == <<"0","x","D","e","F">>
Twitter2 == <<"b","o","b","_","t","w">>
LongField == [i \in 1..(FieldCap + LongBy) |-> "x"]

\* <<_btcAddress, _ethAddress, _twitterUsername>>
FieldArgs ==
    { <<Pad(Btc), Eth, Pad(Twitter)>>,
      <<Btc2, Eth2, Twitter2>>,
      <<<<>>, Eth, Spaces(MaxPad)>>,
      <<Btc, Spaces(MaxPad), Twitter>>,
      <<Btc, Eth, <<>>>>,
      <<<<>>, <<>>, <<>>>>,
      <<Btc, Pad(LongField), Twitter>>,
      <<LongField, <<>>, Twitter>> }

NoFields == <<>>

\* the queries never read ic.caller()
NoCaller == 0

----------------------------------------------------------------------------
(* The canister as a state machine: one action per exported function *)

Init ==
    /\ register = EmptyMap
    /\ records = EmptyMap
    /\ last = [op |-> "none", caller |-> NoCaller, name |-> <<>>, fields |-> NoFields,
               result |-> Ok(<<>>), register |-> EmptyMap, records |-> EmptyMap]

\* the call op(c, n, f) ran to completion and gave r
Completed(op, c, n, f, r) ==
    /\ register' = r.register
    /\ records' = r.records
    /\ last' = [op |-> op, caller |-> c, name |-> n, fields |-> f,
                result |-> r.result, register |-> register, records |-> records]

RegisterName ==
    \E c \in Principals, n \in RawNames :
        Completed("registerName", c, n, NoFields,
                  registerName(register, records, c, n))

SetNameData ==
    \E c \in Principals, n \in RawNames, f \in FieldArgs :
        Completed("setNameData", c, n, f,
                  setNameData(register, records, c, n, f[1], f[2], f[3]))

UpdateNameData ==
    \E c \in Principals, n \in RawNames, f \in FieldArgs :
        Completed("updateNameData", c, n, f,
                  updateNameData(register, records, c, n, f[1], f[2], f[3]))

ClearName ==
    \E c \in Principals, n \in RawNames :
        Completed("clearName", c, n, NoFields,
                  clearName(register, records, c, n))

ViewAllNames ==
        Completed("viewAllNames", NoCaller, <<>>, NoFields,
                  viewAllNames(register, records))

ViewNameData ==
    \E n \in RawNames :
        Completed("viewNameData", NoCaller, n, NoFields,
                  viewNameData(register, records, n))

ViewRegisteredName ==
    \E n \in RawNames :
        Completed("viewRegisteredName", NoCaller, n, NoFields,
                  viewRegisteredName(register, records, n))

Next ==
    \/ RegisterName
    \/ SetNameData
    \/ UpdateNameData
    \/ ClearName
    \/ ViewAllNames
    \/ ViewNameData
    \/ ViewRegisteredName

Spec == Init /\ [][Next]_vars

----------------------------------------------------------------------------
(* Vocabulary of the properties: the error taxonomy, read off the messages *)

IsOk(r) == r.tag = "Ok"

IsErr(r, texts) == r.tag = "Err" /\ r.val.text \in texts

InvalidFormat(r) ==
    IsErr(r, {" INVALID_NAME_FORMAT : Name can only contain letters and numbers from the English alphabet"})

InvalidLength(r) ==
    IsErr(r, {" INVALID_NAME_LENGTH : Name must be between 2 and 16 characters long"})

AlreadyTaken(r) == IsErr(r, {"${name} is already taken. Please use another name"})

NotRegistered(r) ==
    IsErr(r, {"${name} has not been claimed yet",
              "Cannot clear name that has not been claimed",
              "The name ${name} has not been registered yet"})

NotOwner(r) ==
    IsErr(r, {"Only name owner can set name data",
              "Only name owner can update name data",
              "Only name owner can clear name. Aborting..."})

DataAlreadyExists(r) == IsErr(r, {"${name} already has data associated with it"})

NoDataAttached(r) == IsErr(r, {"${name} has no data associated with it"})

\* a Name of the data model: only [A-Za-z0-9], length 2..16
ValidName(n) ==
    /\ validNameRegexTest(n)
    /\ Len(n) >= MinNameLen
    /\ Len(n) <= MaxNameLen

\* the record made of the trimmed fields of a call
Trimmed(f) == NameData(trim(f[1]), trim(f[2]), trim(f[3]))

NonEmptyFields(f) == \A i \in 1..3 : Len(trim(f[i])) > 0

SomeFieldTooLong(f) == \E i \in 1..3 : Len(trim(f[i])) > FieldCap

\* the call just completed was made by the stored owner of its name
ByOwner ==
    /\ last.name \in DOMAIN last.register
    /\ last.register[last.name] = last.caller

\* the call just completed was made by somebody else than the stored owner
ByOther ==
    /\ last.name \in DOMAIN last.register
    /\ last.register[last.name] # last.caller

StoresUnchanged == register = last.register /\ records = last.records

----------------------------------------------------------------------------
(* Properties *)

\* C1: when registerName is called with a name that is a valid Name (after
\* trimming) and not yet registered, the call succeeds, the register maps the
\* name to the caller, and viewRegisteredName of that name then returns Ok
\* with the caller's display string.
C1_RegisterThenView ==
    LET name == trim(last.name) IN
    (/\ last.op = "registerName"
     /\ ValidName(name)
     /\ name \notin DOMAIN last.register)
    => /\ IsOk(last.result)
       /\ name \in DOMAIN register
       /\ register[name] = last.caller
       /\ viewRegisteredName(register, records, name).result
              = Ok(toString(last.caller))

C1_Witness ==
    /\ last.op = "registerName"
    /\ last.name = Alice1
    /\ Alice1 \notin DOMAIN last.register
    /\ last.caller = 2
    /\ IsOk(last.result)
    /\ viewRegisteredName(register, records, Alice1).result = Ok(toString(2))

\* C2: registerName of a name that is already in the register returns the
\* AlreadyTaken error, whoever calls (the owner included), and leaves the
\* stored owner (and both maps) as they were.
C2_RegisterNotIdempotent ==
    LET name == trim(last.name) IN
    (/\ last.op = "registerName"
     /\ name \in DOMAIN last.register)
    => /\ AlreadyTaken(last.result)
       /\ register = last.register
       /\ register[name] = last.register[name]
       /\ records = last.records

C2_Witness ==
    /\ last.op = "registerName"
    /\ trim(last.name) \in DOMAIN last.register
    /\ last.register[trim(last.name)] = last.caller
    /\ AlreadyTaken(last.result)

\* C3: registerName of a raw name whose trimmed form holds a character
\* outside [A-Za-z0-9] returns the InvalidFormat error and inserts nothing
\* into the register.
C3_InvalidFormatRejected ==
    LET name == trim(last.name) IN
    (/\ last.op = "registerName"
     /\ \E i \in 1..Len(name) : name[i] \notin Letters \cup Digits)
    => /\ InvalidFormat(last.result)
       /\ register = last.register

DataOps == {"setNameData", "updateNameData", "clearName"}

\* C4: setNameData, updateNameData and clearName of a name that is not in
\* the register return the NotRegistered error, whatever the caller and the
\* field arguments (empty and whitespace-only fields included).
C4_UnregisteredGivesNotRegistered ==
    (/\ last.op \in DataOps
     /\ last.name \notin DOMAIN last.register)
    => NotRegistered(last.result)

\* C5: setNameData, updateNameData and clearName called on a registered name
\* by a caller who is not its stored owner return the NotOwner error,
\* whatever the field arguments and whether or not the name has a record.
\* (Stated for names that are valid Names, so that no trace rests on a name
\* that registerName should have refused.)
C5_OtherCallerGivesNotOwner ==
    (/\ last.op \in DataOps
     /\ ValidName(last.name)
     /\ ByOther)
    => NotOwner(last.result)

\* C6: setNameData by the owner of a registered name stores the record of
\* the trimmed fields when the name has no record and the fields are valid
\* (non-empty, at most 100 characters); when the name has a record it
\* returns DataAlreadyExists, whatever the fields, and leaves the record
\* (and both maps) as they were.
C6_SetOnce ==
    (/\ last.op = "setNameData"
     /\ ByOwner)
    => IF last.name \in DOMAIN last.records
       THEN /\ DataAlreadyExists(last.result)
            /\ StoresUnchanged
            /\ records[last.name] = last.records[last.name]
       ELSE (NonEmptyFields(last.fields) /\ ~SomeFieldTooLong(last.fields))
            => /\ IsOk(last.result)
               /\ register = last.register
               /\ records = MapInsert(last.records, last.name, Trimmed(last.fields))

C6_Witness ==
    /\ last.op = "setNameData"
    /\ ByOwner
    /\ last.name \in DOMAIN last.records
    /\ NonEmptyFields(last.fields)
    /\ Trimmed(last.fields) # last.records[last.name]
    /\ DataAlreadyExists(last.result)
    /\ records[last.name] = last.records[last.name]

\* C7: setNameData by the owner of a registered name without a record, with
\* a field whose trimmed length exceeds 100, returns an error and inserts no
\* record.  (Stated for names that are valid Names.)
C7_SetEnforcesCap ==
    (/\ last.op = "setNameData"
     /\ ValidName(last.name)
     /\ ByOwner
     /\ last.name \notin DOMAIN last.records
     /\ SomeFieldTooLong(last.fields))
    => /\ ~IsOk(last.result)
       /\ records = last.records

C9_UpdateIdempotent ==
    (/\ last.op = "updateNameData"
     /\ IsOk(last.result))
    => LET again == updateNameData(register, records, last.caller, last.name,
                                   last.fields[1], last.fields[2], last.fields[3])
       IN  /\ IsOk(again.result)
           /\ again.register = register
           /\ again.records = records
           /\ records[last.name] = Trimmed(last.fields)
           /\ again.records[last.name] = Trimmed(last.fields)

\* the second of two identical calls: the record was already the one written
C9_Witness ==
    /\ last.op = "updateNameData"
    /\ IsOk(last.result)
    /\ last.name \in DOMAIN last.records
    /\ last.records[last.name] = Trimmed(last.fields)
    /\ last.fields[1] # trim(last.fields[1])
    /\ StoresUnchanged

\* C10: clearName by the owner succeeds and removes the name from the
\* register and from the records (whether or not it had a record) and
\* touches no other entry; viewRegisteredName and viewNameData of the name
\* then return NotRegistered, and registerName of it by any caller succeeds,
\* after which viewNameData returns NoDataAttached.
C10_ClearRemovesBoth ==
    (/\ last.op = "clearName"
     /\ ByOwner)
    => /\ IsOk(last.result)
       /\ register = MapRemove(last.register, last.name)
       /\ records = MapRemove(last.records, last.name)
       /\ last.name \notin DOMAIN register
       /\ last.name \notin DOMAIN records
       /\ NotRegistered(viewRegisteredName(register, records, last.name).result)
       /\ NotRegistered(viewNameData(register, records, last.name).result)
       /\ \A c \in Principals :
            LET r == registerName(register, records, c, last.name) IN
            /\ IsOk(r.result)
            /\ r.register = MapInsert(register, last.name, c)
            /\ NoDataAttached(viewNameData(r.register, r.records, last.name).result)

C10_Witness ==
    /\ last.op = "clearName"
    /\ ByOwner
    /\ last.name \in DOMAIN last.records
    /\ IsOk(last.result)
    /\ last.name \notin DOMAIN register
    /\ last.name \notin DOMAIN records

UpdateOps == {"registerName", "setNameData", "updateNameData", "clearName"}

\* C11: a call of registerName, setNameData, updateNameData or clearName
\* that returns an error leaves the register and the records exactly as
\* they were before the call.
C11_ErrorLeavesStores ==
    (/\ last.op \in UpdateOps
     /\ ~IsOk(last.result))
    => StoresUnchanged

\* the owner's setNameData failing on its last check, the twitter username
C11_Witness ==
    /\ last.op = "setNameData"
    /\ ByOwner
    /\ last.name \notin DOMAIN last.records
    /\ Len(trim(last.fields[1])) > 0
    /\ Len(trim(last.fields[2])) > 0
    /\ Len(trim(last.fields[3])) = 0
    /\ ~IsOk(last.result)
    /\ StoresUnchanged

\* C12: in every reachable state the names that have a data record are
\* among the names that have an owner.
C12_DataKeysSubsetOfOwnerKeys == DOMAIN records \subseteq DOMAIN register

\* a record was written for a registered name that had none
C12_Witness ==
    /\ last.op \in {"setNameData", "updateNameData"}
    /\ IsOk(last.result)
    /\ last.name = Alice1
    /\ Alice1 \notin DOMAIN last.records
    /\ Alice1 \in DOMAIN records
    /\ Alice1 \in DOMAIN register

\* C13: a name that has an owner keeps that owner through every call; its
\* register entry goes away only in a successful clearName of that name by
\* that owner.
C13_OwnerNeverReassigned ==
    \A n \in DOMAIN last.register :
        \/ /\ n \in DOMAIN register
           /\ register[n] = last.register[n]
        \/ /\ n \notin DOMAIN register
           /\ last.op = "clearName"
           /\ last.name = n
           /\ last.caller = last.register[n]
           /\ IsOk(last.result)

\* another caller tried to register, or to clear, an owned name
C13_Witness ==
    /\ last.op \in {"registerName", "clearName"}
    /\ trim(last.name) \in DOMAIN last.register
    /\ last.register[trim(last.name)] # last.caller
    /\ ~IsOk(last.result)
    /\ register[trim(last.name)] = last.register[trim(last.name)]

EmptyRegistry(r) == IsErr(r, {"No names found."})

\* C14: viewAllNames returns the EmptyRegistry error exactly when the
\* register has no entry; otherwise it returns Ok with a sequence that holds
\* each registered name once and nothing else; it changes neither map.
C14_ViewAllNames ==
    (last.op = "viewAllNames")
    => /\ StoresUnchanged
       /\ EmptyRegistry(last.result) <=> (DOMAIN register = {})
       /\ (DOMAIN register # {})
          => /\ IsOk(last.result)
             /\ Len(last.result.val) = Cardinality(DOMAIN register)
             /\ {last.result.val[i] : i \in 1..Len(last.result.val)} = DOMAIN register

\* the names are listed after one of them was registered
C14_Witness ==
    /\ last.op = "viewAllNames"
    /\ Alice1 \in DOMAIN register
    /\ IsOk(last.result)
    /\ \E i \in 1..Len(last.result.val) : last.result.val[i] = Alice1

\* C15: viewNameData returns NotRegistered for a name without an owner,
\* NoDataAttached for an owned name without a record and otherwise Ok with
\* the stored record, and changes neither map; the stored record of a name
\* is the one written by the last successful setNameData or updateNameData
\* of that name (a record changes or appears only in such a call, as the
\* trimmed fields of that call).
C15_ViewNameData ==
    /\ (last.op = "viewNameData")
       => /\ StoresUnchanged
          /\ IF last.name \notin DOMAIN register
             THEN NotRegistered(last.result)
             ELSE IF last.name \notin DOMAIN records
             THEN NoDataAttached(last.result)
             ELSE last.result = Ok(records[last.name])
    /\ \A n \in DOMAIN records :
          \/ /\ n \in DOMAIN last.records
             /\ records[n] = last.records[n]
          \/ /\ last.op \in {"setNameData", "updateNameData"}
             /\ IsOk(last.result)
             /\ last.name = n
             /\ records[n] = Trimmed(last.fields)

\* the record of a name is read back
C15_Witness ==
    /\ last.op = "viewNameData"
    /\ last.name \in DOMAIN records
    /\ last.result = Ok(records[last.name])
    /\ records[last.name] = Trimmed(<<Btc2, Eth2, Twitter2>>)

\* C16: every key of the register (and so of the records) is a valid Name:
\* only characters of [A-Za-z0-9], length 2 to 16.
C16_KeysAreValidNames ==
    \A k \in DOMAIN register \cup DOMAIN records : ValidName(k)

\* the state of a name: no owner and no record, an owner and no record, an
\* owner and a record ("Orphan": a record and no owner)
NameState(reg, rec, n) ==
    IF n \in DOMAIN reg
    THEN IF n \in DOMAIN rec THEN "RegisteredWithData" ELSE "Registered"
    ELSE IF n \in DOMAIN rec THEN "Orphan" ELSE "Unregistered"

\* every name a call can be about
AllNames == RawNames \cup {trim(n) : n \in RawNames}

\* C17: for every name, a call either leaves its state and its entries as
\* they were, or takes it from Unregistered to Registered (successful
\* registerName of it), from Registered to RegisteredWithData (successful
\* setNameData or updateNameData by the owner), from RegisteredWithData to
\* RegisteredWithData with another record (successful updateNameData by the
\* owner), or from Registered or RegisteredWithData to Unregistered
\* (successful clearName by the owner).
C17_NameStateMachine ==
    \A n \in AllNames :
        LET pre == NameState(last.register, last.records, n)
            post == NameState(register, records, n)
        IN
        \/ /\ pre = post
           /\ pre # "Orphan"
           /\ MapGet(register, n) = MapGet(last.register, n)
           /\ MapGet(records, n) = MapGet(last.records, n)
        \/ /\ pre = "Unregistered" /\ post = "Registered"
           /\ last.op = "registerName" /\ trim(last.name) = n
           /\ IsOk(last.result)
        \/ /\ pre = "Registered" /\ post = "RegisteredWithData"
           /\ last.op \in {"setNameData", "updateNameData"} /\ last.name = n
           /\ ByOwner /\ IsOk(last.result)
           /\ register[n] = last.register[n]
        \/ /\ pre = "RegisteredWithData" /\ post = "RegisteredWithData"
           /\ last.op = "updateNameData" /\ last.name = n
           /\ ByOwner /\ IsOk(last.result)
           /\ register[n] = last.register[n]
        \/ /\ pre \in {"Registered", "RegisteredWithData"} /\ post = "Unregistered"
           /\ last.op = "clearName" /\ last.name = n
           /\ ByOwner /\ IsOk(last.result)

\* updateNameData gave a record to a name that had none
C17_Witness ==
    /\ last.op = "updateNameData"
    /\ IsOk(last.result)
    /\ NameState(last.register, last.records, last.name) = "Registered"
    /\ NameState(register, records, last.name) = "RegisteredWithData"

\* a field fails its check: empty after trimming, or longer than the cap
FieldFails(x) == Len(trim(x)) = 0 \/ Len(trim(x)) > FieldCap

\* C18: an error of setNameData is the one of the first failing check in
\* the order NotRegistered, NotOwner, DataAlreadyExists, btcAddress field
\* error, ethAddress field error, twitterUsername field error.  (Stated for
\* the calls that return an error, on names that are valid Names when
\* registered.)
C18_SetErrorOrder ==
    (/\ last.op = "setNameData"
     /\ ~IsOk(last.result)
     /\ (last.name \in DOMAIN last.register => ValidName(last.name)))
    => IF last.name \notin DOMAIN last.register
       THEN NotRegistered(last.result)
       ELSE IF ByOther
       THEN NotOwner(last.result)
       ELSE IF last.name \in DOMAIN last.records
       THEN DataAlreadyExists(last.result)
       ELSE IF FieldFails(last.fields[1])
       THEN IsErr(last.result, {"Invalid Bitcoin address"})
       ELSE IF FieldFails(last.fields[2])
       THEN IsErr(last.result, {"Invalid Ethereum address"})
       ELSE IsErr(last.result, {"Invalid Twitter username"})

\* C19: every record in the records map has its three fields non-empty and
\* free of leading and trailing whitespace, and a successful setNameData or
\* updateNameData stores the trimmed form of its arguments.
C19_RecordsNonEmptyTrimmed ==
    /\ \A n \in DOMAIN records :
          LET d == records[n] IN
          /\ Len(d.btcAddress) > 0 /\ trim(d.btcAddress) = d.btcAddress
          /\ Len(d.ethAddress) > 0 /\ trim(d.ethAddress) = d.ethAddress
          /\ Len(d.twitterUsername) > 0 /\ trim(d.twitterUsername) = d.twitterUsername
    /\ (last.op \in {"setNameData", "updateNameData"} /\ IsOk(last.result))
       => /\ NonEmptyFields(last.fields)
          /\ records[last.name] = Trimmed(last.fields)

\* setNameData stored arguments that came with surrounding whitespace
C19_Witness ==
    /\ last.op = "setNameData"
    /\ IsOk(last.result)
    /\ last.fields[1] # trim(last.fields[1])
    /\ records[last.name].btcAddress = trim(last.fields[1])

\* C20: a call whose caller is not the stored owner of a registered name
\* leaves that name's register entry and records entry as they were; every
\* call that changes or removes them is a setNameData, updateNameData or
\* clearName of that name by its stored owner.
C20_OnlyOwnerChanges ==
    \A n \in DOMAIN last.register :
        \/ /\ MapGet(register, n) = MapGet(last.register, n)
           /\ MapGet(records, n) = MapGet(last.records, n)
        \/ /\ last.op \in DataOps
           /\ last.name = n
           /\ last.caller = last.register[n]

\* another caller tried to clear or overwrite a name that has a record
C20_Witness ==
    /\ last.op \in {"clearName", "updateNameData"}
    /\ ByOther
    /\ last.name \in DOMAIN last.records
    /\ (last.op = "updateNameData" => NonEmptyFields(last.fields))
    /\ MapGet(register, last.name) = MapGet(last.register, last.name)
    /\ MapGet(records, last.name) = MapGet(last.records, last.name)

====
